---- MODULE Spec2Model ----
(***************************************************************************)
(* Model of the scene session controller of the web client: class          *)
(* SceneManager in src/web/static/js/ui-interactions.js (the most recent   *)
(* copy of the class, lines 1585-2661).                                    *)
(*                                                                         *)
(* The controller is single threaded.  Every async method runs up to its   *)
(* first await (the fetch) in one step; the continuation after the await   *)
(* runs in a later step, when the response is delivered.  Responses are    *)
(* delivered in any order.  Methods are public (window.sceneManager), so   *)
(* each one may be invoked in any state with any argument.                 *)
(***************************************************************************)
EXTENDS Naturals, Sequences, FiniteSets

\* ------------------------------------------------------------------ data

\* Server-side scenes the client can load, with the ids of their objects
\* (data.scene.objects of GET /api/scenes/{id}).  B is a scene as POST
\* /api/scenes creates it: it has no objects yet.
SceneIds ==
    {"A", "B"}

SceneObjects(sceneId) ==
    IF sceneId = "A" THEN <<"o1", "o2">>
    ELSE <<>>

\* The object ids toggleObjectSelection is called with
ObjectIds ==
    {"o1", "o2"}

\* this.currentScene = null
NoScene ==
    ""

\* Largest number of fetches in flight at once.
MaxInFlight ==
    2

Range(s) ==
    {s[i] : i \in DOMAIN s}

ObjectIdsOf(sceneId) ==
    Range(SceneObjects(sceneId))

\* scene.object_count
object_count(sceneId) ==
    Len(SceneObjects(sceneId))

\* ------------------------------------------------------------ JS Set ops
\* this.selectedObjects is a JS Set: it iterates in insertion order, add
\* of a present element keeps its place, delete removes it.
SetAdd(s, x) ==
    IF x \in Range(s) THEN s ELSE Append(s, x)

SetDelete(s, x) ==
    SelectSeq(s, LAMBDA y : y # x)

\* ---------------------------------------------------------------- state

VARIABLES
    currentScene,        \* this.currentScene: the scene_id of the scene, or NoScene
    selectedObjects,     \* this.selectedObjects, in insertion order
    pending,             \* fetches in flight: request -> number outstanding
    modal,               \* the #scene-modal element: its kind and the scene it was rendered from
    exportBtnsDisabled,  \* disabled of export-complete/-individual, validate and preview buttons
    selectiveBtnDisabled,\* disabled of export-selective-btn
    selectionInfo,       \* the count shown in #selection-info
    latestLoad,          \* argument of the most recent loadScene call
    toggledIn,           \* the object ids whose last toggle, since the last completed load, was selected=true
    last,                \* what the most recent handler did: its request and its notification
    individualSelect,    \* value of #individual-object-select ('' when the element is absent)
    previewSrc,          \* src of the image in #scene-preview-container ('' when none is shown)
    preselect,           \* object ids with a pre-select timer of exportIndividualObject outstanding
    capability,          \* health.scene_management_available as last reported: "unknown", "yes", "no"
    sceneName,           \* the text typed into #scene-name of the create-scene modal, a sequence of characters
    suppliedId,          \* the object id the caller gave for the open individual export modal ('' if none)
    statusContainer,     \* the children of #status-container, oldest first: the message of each entry
    posted,              \* the messages updateStatusMessage was called with, in call order
    timeout,             \* debounce: time left until the armed timer is due, or NoTimer
    laterArgs,           \* debounce: the args in the closure `later` of the armed timer
    lastArgs,            \* debounce: the args of the most recent call of the debounced function
    sinceCall,           \* debounce: time elapsed since the most recent call, counted up to DebounceWait
    burstOpen,           \* debounce: a call was made and func was not invoked since
    invoked,             \* debounce: the args func was invoked with, in order
    calls,               \* debounce: the number of calls of the debounced function so far
    formValues,          \* #model-form: the entry of each named control as FormData gives it
    currentModel,        \* ModelFormController.currentModel: the id of the model, or NoModel
    exportBtn,           \* #export-btn: its disabled attribute and whether an onclick handler is set
    progressModalShown,  \* #progress-modal is not hidden
    progressRuns,        \* runs of generateModel waiting in simulateProgress
    generatePending,     \* POST /api/generate requests in flight
    exportPending,       \* POST /api/export requests in flight
    latestModel,         \* the id of the model generated last, by the form or by AI (NoModel if none)
    formLast,            \* what the most recent handler did, if it was one of the model form
    aiConfigured,        \* the server has an API key: what /api/health reports as ai_available
    aiHealthPending,     \* the GET /api/health of checkAIAvailability is in flight
    openBtnDisabled,     \* #ai-generate-btn.disabled
    aiModalOpen,         \* #ai-modal is not hidden
    isGenerating,        \* AIModelGenerator.isGenerating
    aiDescription,       \* #ai-description: "" (empty), "short" (under 10 characters) or "long"
    submitBtnDisabled,   \* #ai-submit-btn.disabled
    aiPending,           \* POST /api/ai/generate requests in flight
    closeTimers,         \* timers of handleSubmit outstanding that will call closeModal
    lastGeneratedModel,  \* window.lastGeneratedModel: the id of the model, or NoModel
    aiLast,              \* what the most recent handler did, if it was one of the AI generator
    aiSceneModalOpen,    \* #ai-scene-modal is not hidden
    aiSceneDescription,  \* the description field of #ai-scene-form, trimmed: "" or a text
    aiSceneSubmit,       \* #ai-scene-submit-btn: disabled, and the scene its onclick handler loads (NoScene: no handler)
    aiSceneTimers,       \* the generated scenes with an auto-load timer of submitAISceneGeneration outstanding
    aiSceneReopened,     \* showAISceneModal ran since the last successful generation
    loadAtGeneration,    \* for each generated scene, latestLoad as it was when its generation succeeded
    generatedLoad        \* argument of the most recent loadScene call made by loadGeneratedScene

vars ==
    <<currentScene, selectedObjects, pending, modal, exportBtnsDisabled,
      selectiveBtnDisabled, selectionInfo, latestLoad, toggledIn, last,
      individualSelect, previewSrc, preselect, capability, sceneName,
      suppliedId, statusContainer, posted, timeout, laterArgs, lastArgs,
      sinceCall, burstOpen, invoked, calls, formValues, currentModel,
      exportBtn, progressModalShown, progressRuns, generatePending,
      exportPending, latestModel, formLast, aiConfigured, aiHealthPending,
      openBtnDisabled, aiModalOpen, isGenerating, aiDescription,
      submitBtnDisabled, aiPending, closeTimers, lastGeneratedModel, aiLast,
      aiSceneModalOpen, aiSceneDescription, aiSceneSubmit, aiSceneTimers,
      aiSceneReopened, loadAtGeneration, generatedLoad>>

\* the AI scene generation of the scene manager
aiSceneVars ==
    <<aiSceneModalOpen, aiSceneDescription, aiSceneSubmit, aiSceneTimers,
      aiSceneReopened, loadAtGeneration, generatedLoad>>

\* the state of the scene manager
sceneVars ==
    <<currentScene, selectedObjects, pending, modal, exportBtnsDisabled,
      selectiveBtnDisabled, selectionInfo, latestLoad, toggledIn, last,
      individualSelect, previewSrc, preselect, capability, sceneName,
      suppliedId, aiSceneVars>>

\* the status log of the model form
statusVars ==
    <<statusContainer, posted>>

\* one debounced function
debounceVars ==
    <<timeout, laterArgs, lastArgs, sinceCall, burstOpen, invoked, calls>>

\* the model form
formVars ==
    <<formValues, currentModel, exportBtn, progressModalShown, progressRuns,
      generatePending, exportPending, latestModel, formLast>>

\* the AI model generator
aiVars ==
    <<aiConfigured, aiHealthPending, openBtnDisabled, aiModalOpen, isGenerating,
      aiDescription, submitBtnDisabled, aiPending, closeTimers,
      lastGeneratedModel, aiLast>>

\* the model form without the record of its last handler
formState ==
    <<formValues, currentModel, exportBtn, progressModalShown, progressRuns,
      generatePending, exportPending, latestModel>>

\* the AI model generator without the record of its last handler
aiState ==
    <<aiConfigured, aiHealthPending, openBtnDisabled, aiModalOpen, isGenerating,
      aiDescription, submitBtnDisabled, aiPending, closeTimers,
      lastGeneratedModel>>

\* the state outside the scene manager
outside ==
    <<statusVars, debounceVars, formVars, aiVars>>

\* the state outside the scene manager and the state of its AI scene
\* generation
others ==
    <<outside, aiSceneVars>>

\* what the handlers of the AI scene generation leave alone
sceneRest ==
    <<currentScene, selectedObjects, modal, exportBtnsDisabled,
      selectiveBtnDisabled, selectionInfo, toggledIn, individualSelect,
      suppliedId, previewSrc, preselect, capability, sceneName, outside>>

\* state that only exportIndividualObject, checkCapabilities and the
\* create-scene form write, and the state outside the scene manager
aux ==
    <<preselect, capability, sceneName, others>>

ReqKinds ==
    {"load", "preview", "export", "validate", "create", "list", "health",
     "aiScene", "viewList", "autoList"}

\* The kinds whose continuation uses a scene id: a load (the response carries
\* that scene) and the list request of loadGeneratedScene(sceneId), started
\* by the 'View Generated Scene' button or by the auto-load timer
SceneKinds ==
    {"load", "viewList", "autoList"}

\* A fetch in flight is told apart by what its continuation uses: the scene
\* id for the kinds above, nothing for the others.
Requests ==
    {<<k, s>> : k \in SceneKinds, s \in SceneIds}
        \cup {<<k, "">> : k \in ReqKinds \ SceneKinds}

Key(kind, sceneId) ==
    IF kind \in SceneKinds THEN <<kind, sceneId>> ELSE <<kind, "">>

ExportTypes ==
    {"complete", "individual", "selective"}

Outcomes ==
    {"success", "failure", "transport"}

NoModal ==
    [kind |-> "none", scene |-> NoScene]

\* A request as sent: its endpoint kind, the scene id in its URL, the object
\* ids in its body (object_id / object_ids) and the auto_fix flag of its body.
Req(kind, sceneId, ids, autoFix) ==
    [kind |-> kind, scene |-> sceneId, ids |-> ids, autoFix |-> autoFix]

NoReq ==
    Req("none", NoScene, <<>>, FALSE)

InFlight ==
    LET S[R \in SUBSET Requests] ==
            IF R = {} THEN 0
            ELSE LET r == CHOOSE x \in R : TRUE IN pending[r] + S[R \ {r}]
    IN S[Requests]

LoadInFlight ==
    \E s \in SceneIds : pending[<<"load", s>>] > 0

\* fetch(...): one more request of this kind for this scene is outstanding
Fetch(kind, sceneId) ==
    [pending EXCEPT ![Key(kind, sceneId)] = @ + 1]

\* the awaited response is delivered
Deliver(kind, sceneId) ==
    [pending EXCEPT ![Key(kind, sceneId)] = @ - 1]

\* The record of a handler run: the handler, its argument, the outcome of the
\* response it handled, the request it sent (NoReq if none), whether it
\* called showError, and whether objects were selected when it started.
Did(op, arg, outcome, req, err) ==
    [op |-> op, arg |-> arg, outcome |-> outcome, req |-> req, err |-> err,
     hadSel |-> selectedObjects # <<>>]

\* debounce: no timer is armed
NoTimer ==
    0 - 1

\* ------------------------------------------ values of the model form
\* Numbers are counted in tenths: 0.1 is 1, 10 is 100, 180 is 1800.

\* An entry of FormData: a control without entry (an unchecked radio group or
\* checkbox), a text that parseFloat reads as a number, or any other text
Absent ==
    [t |-> "absent", n |-> 0, s |-> ""]

NumberText(n) ==
    [t |-> "number", n |-> n, s |-> ""]

Text(str) ==
    [t |-> "text", n |-> 0, s |-> str]

\* The values of the object FormUtils.serialize builds
Undefined ==
    [t |-> "undefined", n |-> 0, s |-> ""]

Num(n) ==
    [t |-> "number", n |-> n, s |-> ""]

Str(str) ==
    [t |-> "string", n |-> 0, s |-> str]

Arr(str) ==
    [t |-> "array", n |-> 0, s |-> str]

\* The fields validateForm has rules for
Fields ==
    {"object_type", "size", "pos_x", "rot_x", "rot_y", "rot_z", "color",
     "metallic", "roughness", "emission", "emission_strength"}

\* The type of the input element of a field
InputType(field) ==
    IF field = "object_type" THEN "radio"
    ELSE IF field = "emission" THEN "checkbox"
    ELSE "other"

\* A form every field of which is valid
NominalForm ==
    [f \in Fields |->
        CASE f = "object_type" -> Text("cube")
          [] f = "size" -> NumberText(20)
          [] f = "pos_x" -> NumberText(10)
          [] f = "color" -> Text("#ff0000")
          [] f = "metallic" -> NumberText(5)
          [] f = "roughness" -> NumberText(5)
          [] f = "emission" -> Absent
          [] f = "emission_strength" -> NumberText(10)
          [] OTHER -> NumberText(0)]

NoModel ==
    ""

\* No request was sent
NoPost ==
    [endpoint |-> "", model |-> NoModel, data |-> [f \in Fields |-> Undefined]]

\* The AI scene modal as the page has it: hidden, the form empty, the submit
\* button enabled and without onclick handler
InitAIScene ==
    /\ aiSceneModalOpen = FALSE
    /\ aiSceneDescription = ""
    /\ aiSceneSubmit = [disabled |-> FALSE, view |-> NoScene]
    /\ aiSceneTimers = {}
    /\ aiSceneReopened = FALSE
    /\ loadAtGeneration = [s \in SceneIds |-> NoScene]
    /\ generatedLoad = NoScene

\* The state of the page outside the scene manager when its scripts have run
\* and /api/health has reported AI as available.  #export-btn starts
\* disabled: enableExport is what removes its disabled look.
InitOthers ==
    /\ formValues = NominalForm
    /\ currentModel = NoModel
    /\ exportBtn = [disabled |-> TRUE, onclick |-> FALSE]
    /\ progressModalShown = FALSE
    /\ progressRuns = 0
    /\ generatePending = 0
    /\ exportPending = 0
    /\ latestModel = NoModel
    /\ formLast = [op |-> "init", outcome |-> "", err |-> FALSE, post |-> NoPost]
    /\ aiConfigured = TRUE
    /\ aiHealthPending = FALSE
    /\ openBtnDisabled = FALSE
    /\ aiModalOpen = FALSE
    /\ isGenerating = FALSE
    /\ aiDescription = ""
    /\ submitBtnDisabled = FALSE
    /\ aiPending = 0
    /\ closeTimers = 0
    /\ lastGeneratedModel = NoModel
    /\ aiLast = [op |-> "init", outcome |-> "", err |-> FALSE, sent |-> FALSE]
    /\ InitAIScene
    /\ statusContainer = <<>>
    /\ posted = <<>>
    /\ timeout = NoTimer
    /\ laterArgs = ""
    /\ lastArgs = ""
    /\ sinceCall = 0
    /\ burstOpen = FALSE
    /\ invoked = <<>>
    /\ calls = 0

\* The state after `new SceneManager()`, once the two responses to the
\* requests of init() have been handled (InitStartup is the state before
\* that).  The `disabled` attributes of the buttons come from the page markup,
\* which no script sets before the first load: either value is possible.
Init ==
    /\ currentScene = NoScene
    /\ selectedObjects = <<>>
    /\ pending = [r \in Requests |-> 0]
    /\ modal = NoModal
    /\ exportBtnsDisabled \in BOOLEAN
    /\ selectiveBtnDisabled \in BOOLEAN
    /\ selectionInfo = 0
    /\ latestLoad = NoScene
    /\ toggledIn = {}
    /\ individualSelect = ""
    /\ previewSrc = ""
    /\ preselect = {}
    /\ capability = "yes"
    /\ sceneName = <<>>
    /\ suppliedId = ""
    /\ InitOthers
    /\ last = [op |-> "init", arg |-> "", outcome |-> "", req |-> NoReq,
               err |-> FALSE, hadSel |-> FALSE]

\* ------------------------------------------------------------- handlers

\* updateExportButtonStates(scene): the value given to `disabled` of all
\* five buttons (the selective one included)
ButtonsDisabledFor(sceneId) ==
    ~(sceneId # NoScene /\ object_count(sceneId) > 0)

\* loadScene(''), the "Select a scene..." entry of the dropdown
unloadScene ==
    /\ currentScene' = NoScene
    /\ exportBtnsDisabled' = ButtonsDisabledFor(NoScene)
    /\ selectiveBtnDisabled' = ButtonsDisabledFor(NoScene)
    /\ latestLoad' = NoScene
    /\ previewSrc' = ""
    /\ last' = Did("unload", "", "", NoReq, FALSE)
    /\ UNCHANGED <<selectedObjects, pending, modal, selectionInfo, toggledIn,
                   individualSelect, suppliedId, aux>>

\* loadScene(sceneId) up to `await fetch`
loadScene(sceneId) ==
    /\ InFlight < MaxInFlight
    /\ pending' = Fetch("load", sceneId)
    /\ latestLoad' = sceneId
    /\ last' = Did("loadScene", sceneId, "",
                   Req("load", sceneId, <<>>, FALSE), FALSE)
    /\ UNCHANGED <<currentScene, selectedObjects, modal, exportBtnsDisabled,
                   selectiveBtnDisabled, selectionInfo, toggledIn,
                   individualSelect, suppliedId, previewSrc, aux>>

\* the branch `if (data.success)` of loadScene without its last statement,
\* this.selectedObjects.clear()
LoadSucceeded_KeepsSelection(sceneId) ==
    /\ currentScene' = sceneId
    /\ exportBtnsDisabled' = ButtonsDisabledFor(sceneId)
    /\ selectiveBtnDisabled' = ButtonsDisabledFor(sceneId)
    /\ previewSrc' = ""
    /\ UNCHANGED selectedObjects

\* the branch `if (data.success)` of loadScene
LoadSucceeded(sceneId) ==
    /\ currentScene' = sceneId
    /\ exportBtnsDisabled' = ButtonsDisabledFor(sceneId)
    /\ selectiveBtnDisabled' = ButtonsDisabledFor(sceneId)
    /\ previewSrc' = ""
    /\ selectedObjects' = <<>>

\* the else branch and the catch block of loadScene: showError only
LoadFailed ==
    UNCHANGED <<currentScene, exportBtnsDisabled, selectiveBtnDisabled,
                selectedObjects, previewSrc>>

\* loadScene(sceneId) after the await: the response is handled
loadSceneResponse(sceneId, outcome) ==
    /\ pending[<<"load", sceneId>>] > 0
    /\ pending' = Deliver("load", sceneId)
    /\ IF outcome = "success"
       THEN /\ LoadSucceeded(sceneId)
            /\ toggledIn' = {}
       ELSE /\ LoadFailed
            /\ UNCHANGED toggledIn
    /\ last' = Did("loadResponse", sceneId, outcome, NoReq, outcome # "success")
    /\ UNCHANGED <<modal, selectionInfo, latestLoad, individualSelect, suppliedId, aux>>

\* toggleObjectSelection(objectId, selected)
toggleObjectSelection(objectId, selected) ==
    /\ selectedObjects' = IF selected THEN SetAdd(selectedObjects, objectId)
                          ELSE SetDelete(selectedObjects, objectId)
    /\ selectionInfo' = Len(selectedObjects')
    /\ selectiveBtnDisabled' = (Len(selectedObjects') = 0)
    /\ toggledIn' = IF selected THEN toggledIn \cup {objectId} ELSE toggledIn \ {objectId}
    /\ last' = Did("toggle", objectId, IF selected THEN "in" ELSE "out", NoReq, FALSE)
    /\ UNCHANGED <<currentScene, pending, modal, exportBtnsDisabled, latestLoad,
                   individualSelect, suppliedId, previewSrc, aux>>

\* generateScenePreview() up to `await fetch`
generateScenePreview ==
    /\ IF currentScene = NoScene
       THEN /\ last' = Did("preview", "", "", NoReq, TRUE)
            /\ UNCHANGED pending
       ELSE /\ InFlight < MaxInFlight
            /\ pending' = Fetch("preview", currentScene)
            /\ last' = Did("preview", "", "",
                           Req("preview", currentScene, <<>>, FALSE), FALSE)
    /\ UNCHANGED <<currentScene, selectedObjects, modal, exportBtnsDisabled,
                   selectiveBtnDisabled, selectionInfo, latestLoad, toggledIn,
                   individualSelect, suppliedId, previewSrc, aux>>

\* The preview URLs the server answers with (data.preview_url)
PreviewUrls ==
    {"/previews/scene.png"}

\* displayScenePreview(previewUrl): the src given to the image, `${previewUrl}`
PreviewSrc(previewUrl) ==
    previewUrl

\* generateScenePreview() after the await: displayScenePreview or showError.
\* #scene-preview-container is part of the scene display, so it exists only
\* while a scene is displayed.
generateScenePreviewResponse(outcome, previewUrl) ==
    /\ pending[Key("preview", "")] > 0
    /\ pending' = Deliver("preview", "")
    /\ previewSrc' = IF outcome = "success" /\ currentScene # NoScene
                     THEN PreviewSrc(previewUrl) ELSE previewSrc
    /\ last' = Did("previewResponse", previewUrl, outcome, NoReq, outcome # "success")
    /\ UNCHANGED <<currentScene, selectedObjects, modal, exportBtnsDisabled,
                   selectiveBtnDisabled, selectionInfo, latestLoad, toggledIn,
                   individualSelect, suppliedId, aux>>

\* The modal showExportModal renders: only the individual export modal
\* depends on the scene (its dropdown lists this.currentScene.objects).
ExportModal(exportType) ==
    [kind |-> exportType,
     scene |-> IF exportType = "individual" THEN currentScene ELSE NoScene]

\* a dropdown rendered without the "Select an object..." entry: its value is
\* its first option, the first object of the scene
InitialSelectValue_FirstObject ==
    IF SceneObjects(currentScene) # <<>> THEN Head(SceneObjects(currentScene))
    ELSE ""

\* The value of #individual-object-select in a freshly rendered modal: its
\* first option, "Select an object..." with value ''
InitialSelectValue ==
    ""

\* showExportModal(exportType)
showExportModal(exportType) ==
    /\ IF currentScene = NoScene
       THEN /\ last' = Did("showExportModal", exportType, "", NoReq, TRUE)
            /\ UNCHANGED <<modal, individualSelect, suppliedId>>
       ELSE IF exportType = "selective" /\ Len(selectedObjects) = 0
       THEN /\ last' = Did("showExportModal", exportType, "", NoReq, TRUE)
            /\ UNCHANGED <<modal, individualSelect, suppliedId>>
       ELSE /\ modal' = ExportModal(exportType)
            /\ individualSelect' = InitialSelectValue
            /\ suppliedId' = ""
            /\ last' = Did("showExportModal", exportType, "", NoReq, FALSE)
    /\ UNCHANGED <<currentScene, selectedObjects, pending, exportBtnsDisabled,
                   selectiveBtnDisabled, selectionInfo, latestLoad, toggledIn,
                   previewSrc, aux>>

\* closeModal(): the Cancel and X buttons of the modal
closeModal ==
    /\ modal # NoModal
    /\ modal' = NoModal
    /\ individualSelect' = ""
    /\ suppliedId' = ""
    /\ last' = Did("closeModal", "", "", NoReq, FALSE)
    /\ UNCHANGED <<currentScene, selectedObjects, pending, exportBtnsDisabled,
                   selectiveBtnDisabled, selectionInfo, latestLoad, toggledIn,
                   previewSrc, aux>>

\* The values document.getElementById('individual-object-select')?.value can
\* have: the element exists only in the individual export modal, where it
\* offers '' and the objects of the scene the modal was rendered from.
IndividualSelectValues ==
    IF modal.kind = "individual" THEN {""} \cup ObjectIdsOf(modal.scene) ELSE {""}

\* the user picks an entry of #individual-object-select
chooseIndividualObject(objectId) ==
    /\ modal.kind = "individual"
    /\ objectId \in IndividualSelectValues
    /\ individualSelect' = objectId
    /\ suppliedId' = objectId
    /\ last' = Did("choose", objectId, "", NoReq, FALSE)
    /\ UNCHANGED <<currentScene, selectedObjects, pending, modal, exportBtnsDisabled,
                   selectiveBtnDisabled, selectionInfo, latestLoad, toggledIn,
                   previewSrc, aux>>

\* The request body of executeExport with the selected objects taken from
\* the scene's object list (scene order, scene objects only) instead of
\* Array.from(this.selectedObjects)
ExportIds_SceneOrder(exportType, objectId) ==
    IF exportType = "individual" THEN <<objectId>>
    ELSE IF exportType = "selective"
         THEN SelectSeq(SceneObjects(currentScene),
                        LAMBDA o : o \in Range(selectedObjects))
    ELSE <<>>

\* The request body executeExport builds for the export type
ExportIds(exportType, objectId) ==
    IF exportType = "individual" THEN <<objectId>>
    ELSE IF exportType = "selective" THEN selectedObjects
    ELSE <<>>

\* executeExport(exportType) up to `await fetch`; objectId is the value of
\* the object dropdown of the modal
executeExport(exportType, objectId) ==
    /\ objectId = individualSelect
    /\ IF exportType = "individual" /\ objectId = ""
       THEN \* showError('Please select an object to export'); return
            /\ last' = Did("executeExport", exportType, "", NoReq, TRUE)
            /\ UNCHANGED <<modal, pending, individualSelect, suppliedId>>
       ELSE IF currentScene = NoScene
       THEN \* closeModal(), then this.currentScene.scene_id throws inside
            \* the try: the catch block shows 'Export failed'
            /\ modal' = NoModal
            /\ individualSelect' = ""
            /\ suppliedId' = ""
            /\ last' = Did("executeExport", exportType, "", NoReq, TRUE)
            /\ UNCHANGED pending
       ELSE /\ InFlight < MaxInFlight
            /\ modal' = NoModal
            /\ individualSelect' = ""
            /\ suppliedId' = ""
            /\ pending' = Fetch("export", currentScene)
            /\ last' = Did("executeExport", exportType, "",
                           Req("export", currentScene,
                               ExportIds(exportType, objectId), FALSE), FALSE)
    /\ UNCHANGED <<currentScene, selectedObjects, exportBtnsDisabled,
                   selectiveBtnDisabled, selectionInfo, latestLoad, toggledIn,
                   previewSrc, aux>>

\* executeExport after the await, with a success branch that also resets the
\* selection
executeExportResponse_ClearsSelection(outcome) ==
    /\ pending[Key("export", "")] > 0
    /\ pending' = Deliver("export", "")
    /\ IF outcome = "success"
       THEN /\ modal' = [kind |-> "exported", scene |-> NoScene]
            /\ individualSelect' = ""
            /\ suppliedId' = ""
            /\ selectedObjects' = <<>>
       ELSE UNCHANGED <<modal, individualSelect, suppliedId, selectedObjects>>
    /\ last' = Did("exportResponse", "", outcome, NoReq, outcome # "success")
    /\ UNCHANGED <<currentScene, exportBtnsDisabled,
                   selectiveBtnDisabled, selectionInfo, latestLoad, toggledIn,
                   previewSrc, aux>>

\* executeExport after the await: showExportSuccess opens the result modal
executeExportResponse(outcome) ==
    /\ pending[Key("export", "")] > 0
    /\ pending' = Deliver("export", "")
    /\ IF outcome = "success"
       THEN /\ modal' = [kind |-> "exported", scene |-> NoScene]
            /\ individualSelect' = ""
            /\ suppliedId' = ""
       ELSE UNCHANGED <<modal, individualSelect, suppliedId>>
    /\ last' = Did("exportResponse", "", outcome, NoReq, outcome # "success")
    /\ UNCHANGED <<currentScene, selectedObjects, exportBtnsDisabled,
                   selectiveBtnDisabled, selectionInfo, latestLoad, toggledIn,
                   previewSrc, aux>>

\* The body validateScene sends: JSON.stringify({ auto_fix: false })
ValidateAutoFix ==
    FALSE

\* validateScene() up to `await fetch`
validateScene ==
    /\ IF currentScene = NoScene
       THEN /\ last' = Did("validate", "", "", NoReq, TRUE)
            /\ UNCHANGED pending
       ELSE /\ InFlight < MaxInFlight
            /\ pending' = Fetch("validate", currentScene)
            /\ last' = Did("validate", "", "",
                           Req("validate", currentScene, <<>>, ValidateAutoFix), FALSE)
    /\ UNCHANGED <<currentScene, selectedObjects, modal, exportBtnsDisabled,
                   selectiveBtnDisabled, selectionInfo, latestLoad, toggledIn,
                   individualSelect, suppliedId, previewSrc, aux>>

\* showValidationResults(validation): the result modal; it carries the
\* "Auto-Fix Issues" button only when validation.is_valid is false
ValidationModal(isValid) ==
    [kind |-> IF isValid THEN "valid" ELSE "invalid", scene |-> NoScene]

\* validateScene() after the await: showValidationResults opens a modal
validateSceneResponse(outcome, isValid) ==
    /\ pending[Key("validate", "")] > 0
    /\ pending' = Deliver("validate", "")
    /\ IF outcome = "success"
       THEN /\ modal' = ValidationModal(isValid)
            /\ individualSelect' = ""
            /\ suppliedId' = ""
       ELSE UNCHANGED <<modal, individualSelect, suppliedId>>
    /\ last' = Did("validateResponse", IF isValid THEN "valid" ELSE "invalid",
                   outcome, NoReq, outcome # "success")
    /\ UNCHANGED <<currentScene, selectedObjects, exportBtnsDisabled,
                   selectiveBtnDisabled, selectionInfo, latestLoad, toggledIn,
                   previewSrc, aux>>

\* A click on "Auto-Fix Issues": onclick="sceneManager.autoFixScene()".  The
\* class defines no autoFixScene, so the call throws a TypeError in the
\* inline handler: nothing is sent and nothing changes.
autoFixScene ==
    /\ modal.kind = "invalid"
    /\ last' = Did("autoFix", "", "", NoReq, FALSE)
    /\ UNCHANGED <<currentScene, selectedObjects, pending, modal, exportBtnsDisabled,
                   selectiveBtnDisabled, selectionInfo, latestLoad, toggledIn,
                   individualSelect, suppliedId, previewSrc, aux>>

Next ==
    \/ unloadScene
    \/ \E s \in SceneIds : loadScene(s)
    \/ \E s \in SceneIds, r \in Outcomes : loadSceneResponse(s, r)
    \/ \E o \in ObjectIds, b \in BOOLEAN : toggleObjectSelection(o, b)
    \/ generateScenePreview
    \/ \E r \in Outcomes, u \in PreviewUrls : generateScenePreviewResponse(r, u)
    \/ \E t \in ExportTypes : showExportModal(t)
    \/ closeModal
    \/ \E o \in ObjectIds : chooseIndividualObject(o)
    \/ \E t \in ExportTypes, o \in ObjectIds \cup {""} : executeExport(t, o)
    \/ \E r \in Outcomes : executeExportResponse(r)
    \/ validateScene
    \/ \E r \in Outcomes, v \in BOOLEAN : validateSceneResponse(r, v)
    \/ autoFixScene

Spec ==
    Init /\ [][Next]_vars

\* ------------------------------------------------- create-scene form

\* Longest scene name typed into the form.
MaxNameLen ==
    2

\* The characters of a typed name: white space and anything else
Chars ==
    {" ", "x"}

Names ==
    UNION {[1..k -> Chars] : k \in 0..MaxNameLen}

RECURSIVE TrimLeft(_)
TrimLeft(s) ==
    IF s # <<>> /\ Head(s) = " " THEN TrimLeft(Tail(s)) ELSE s

RECURSIVE TrimRight(_)
TrimRight(s) ==
    IF s # <<>> /\ s[Len(s)] = " " THEN TrimRight(SubSeq(s, 1, Len(s) - 1)) ELSE s

\* the value of the field taken as it is
Trim_None(s) ==
    s

\* String.prototype.trim()
Trim(s) ==
    TrimRight(TrimLeft(s))

\* showCreateSceneModal(): showModal replaces any open modal by the form,
\* whose fields are empty
showCreateSceneModal ==
    /\ modal' = [kind |-> "create", scene |-> NoScene]
    /\ individualSelect' = ""
    /\ suppliedId' = ""
    /\ sceneName' = <<>>
    /\ last' = Did("showCreateSceneModal", "", "", NoReq, FALSE)
    /\ UNCHANGED <<currentScene, selectedObjects, pending, exportBtnsDisabled,
                   selectiveBtnDisabled, selectionInfo, latestLoad, toggledIn,
                   previewSrc, preselect, capability, others>>

\* the user types a name into #scene-name
typeSceneName(name) ==
    /\ modal.kind = "create"
    /\ sceneName' = name
    /\ last' = Did("typeSceneName", "", "", NoReq, FALSE)
    /\ UNCHANGED <<currentScene, selectedObjects, pending, modal, exportBtnsDisabled,
                   selectiveBtnDisabled, selectionInfo, latestLoad, toggledIn,
                   individualSelect, suppliedId, previewSrc, preselect, capability, others>>

\* document.getElementById('scene-name')?.value.trim(): undefined, which is
\* falsy like '', when no create-scene modal is open
SceneNameValue ==
    IF modal.kind = "create" THEN Trim(sceneName) ELSE <<>>

\* submitCreateScene() up to the `await fetch` of createScene(name, description)
submitCreateScene ==
    /\ IF SceneNameValue = <<>>
       THEN \* showError('Scene name is required'); return
            /\ last' = Did("submitCreate", "", "", NoReq, TRUE)
            /\ UNCHANGED <<modal, pending>>
       ELSE /\ InFlight < MaxInFlight
            /\ modal' = NoModal
            /\ pending' = Fetch("create", NoScene)
            /\ last' = Did("submitCreate", "", "",
                           Req("create", NoScene, <<>>, FALSE), FALSE)
    /\ UNCHANGED <<currentScene, selectedObjects, exportBtnsDisabled,
                   selectiveBtnDisabled, selectionInfo, latestLoad, toggledIn,
                   individualSelect, suppliedId, previewSrc, aux>>

\* createScene and submitCreateScene after the await, without the
\* `if (sceneId)` block of submitCreateScene: the list is refreshed, nothing
\* is loaded
createSceneResponse_NoAutoLoad(outcome, sceneId) ==
    /\ pending[Key("create", NoScene)] > 0
    /\ IF outcome = "success"
       THEN /\ pending' = [pending EXCEPT ![Key("create", NoScene)] = @ - 1,
                                          ![Key("list", NoScene)] = @ + 1]
            /\ last' = Did("createResponse", sceneId, outcome, NoReq, FALSE)
       ELSE /\ pending' = Deliver("create", NoScene)
            /\ last' = Did("createResponse", "", outcome, NoReq, TRUE)
    /\ UNCHANGED <<currentScene, selectedObjects, modal, exportBtnsDisabled,
                   selectiveBtnDisabled, selectionInfo, latestLoad, toggledIn,
                   individualSelect, suppliedId, previewSrc, aux>>

\* createScene after its await and, in the same turn, the rest of
\* submitCreateScene: on success createScene starts loadScenesList() and
\* returns data.scene.scene_id (sceneId, which the server chose), and
\* submitCreateScene calls loadScene(sceneId), which runs up to its fetch;
\* otherwise createScene shows the error and returns null.
createSceneResponse(outcome, sceneId) ==
    /\ pending[Key("create", NoScene)] > 0
    /\ IF outcome = "success"
       THEN /\ InFlight < MaxInFlight
            /\ pending' = [pending EXCEPT ![Key("create", NoScene)] = @ - 1,
                                          ![Key("list", NoScene)] = @ + 1,
                                          ![Key("load", sceneId)] = @ + 1]
            /\ latestLoad' = sceneId
            /\ last' = Did("createResponse", sceneId, outcome,
                           Req("load", sceneId, <<>>, FALSE), FALSE)
       ELSE /\ pending' = Deliver("create", NoScene)
            /\ last' = Did("createResponse", "", outcome, NoReq, TRUE)
            /\ UNCHANGED latestLoad
    /\ UNCHANGED <<currentScene, selectedObjects, modal, exportBtnsDisabled,
                   selectiveBtnDisabled, selectionInfo, toggledIn,
                   individualSelect, suppliedId, previewSrc, aux>>

\* loadScenesList() after the await: updateScenesDropdown or showError
loadScenesListResponse(outcome) ==
    /\ pending[Key("list", NoScene)] > 0
    /\ pending' = Deliver("list", NoScene)
    /\ last' = Did("listResponse", "", outcome, NoReq, outcome # "success")
    /\ UNCHANGED <<currentScene, selectedObjects, modal, exportBtnsDisabled,
                   selectiveBtnDisabled, selectionInfo, latestLoad, toggledIn,
                   individualSelect, suppliedId, previewSrc, aux>>

NextCreate ==
    \/ showCreateSceneModal
    \/ \E n \in Names : typeSceneName(n)
    \/ closeModal
    \/ submitCreateScene
    \/ \E r \in Outcomes, s \in SceneIds : createSceneResponse(r, s)
    \/ \E r \in Outcomes : loadScenesListResponse(r)
    \/ \E s \in SceneIds : loadScene(s)
    \/ \E s \in SceneIds, r \in Outcomes : loadSceneResponse(s, r)
    \/ \E o \in ObjectIds, b \in BOOLEAN : toggleObjectSelection(o, b)

SpecCreate ==
    Init /\ [][NextCreate]_vars

\* --------------------------------------------- export of a single object

\* exportIndividualObject(objectId): opens the individual export modal and
\* starts the 100 ms timer that pre-selects the object in its dropdown
exportIndividualObject(objectId) ==
    /\ IF currentScene = NoScene \/ objectId \notin ObjectIdsOf(currentScene)
       THEN \* showError('No scene selected') / showError('Object not found')
            /\ last' = Did("exportIndividualObject", objectId, "", NoReq, TRUE)
            /\ UNCHANGED <<modal, individualSelect, suppliedId, preselect>>
       ELSE /\ modal' = ExportModal("individual")
            /\ individualSelect' = InitialSelectValue
            /\ suppliedId' = objectId
            /\ preselect' = preselect \cup {objectId}
            /\ last' = Did("exportIndividualObject", objectId, "", NoReq, FALSE)
    /\ UNCHANGED <<currentScene, selectedObjects, pending, exportBtnsDisabled,
                   selectiveBtnDisabled, selectionInfo, latestLoad, toggledIn,
                   previewSrc, capability, sceneName, others>>

\* the timer of exportIndividualObject fires: objectSelect.value = objectId,
\* on whichever individual export modal is open by then; a value that is no
\* option of the dropdown leaves it without a selection (value '')
preselectTimer(objectId) ==
    /\ objectId \in preselect
    /\ preselect' = preselect \ {objectId}
    /\ IF modal.kind = "individual"
       THEN /\ individualSelect' = IF objectId \in IndividualSelectValues
                                   THEN objectId ELSE ""
            /\ suppliedId' = objectId
       ELSE UNCHANGED <<individualSelect, suppliedId>>
    /\ last' = Did("preselect", objectId, "", NoReq, FALSE)
    /\ UNCHANGED <<currentScene, selectedObjects, pending, modal, exportBtnsDisabled,
                   selectiveBtnDisabled, selectionInfo, latestLoad, toggledIn,
                   previewSrc, capability, sceneName, others>>

NextIndividual ==
    \/ \E s \in SceneIds : loadScene(s)
    \/ \E s \in SceneIds, r \in Outcomes : loadSceneResponse(s, r)
    \/ \E t \in ExportTypes : showExportModal(t)
    \/ closeModal
    \/ \E o \in ObjectIds : chooseIndividualObject(o)
    \/ \E o \in ObjectIds : exportIndividualObject(o)
    \/ \E o \in ObjectIds : preselectTimer(o)
    \/ \E t \in ExportTypes, o \in ObjectIds \cup {""} : executeExport(t, o)
    \/ \E r \in Outcomes : executeExportResponse(r)

SpecIndividual ==
    Init /\ [][NextIndividual]_vars

\* --------------------------------------------------------------- start-up

\* The state after `new SceneManager()`: init() has called checkCapabilities
\* and loadScenesList, each of which ran up to its fetch.
InitStartup ==
    /\ currentScene = NoScene
    /\ selectedObjects = <<>>
    /\ pending = [r \in Requests |->
                    IF r \in {Key("health", NoScene), Key("list", NoScene)}
                    THEN 1 ELSE 0]
    /\ modal = NoModal
    /\ exportBtnsDisabled \in BOOLEAN
    /\ selectiveBtnDisabled \in BOOLEAN
    /\ selectionInfo = 0
    /\ latestLoad = NoScene
    /\ toggledIn = {}
    /\ individualSelect = ""
    /\ previewSrc = ""
    /\ preselect = {}
    /\ capability = "unknown"
    /\ sceneName = <<>>
    /\ suppliedId = ""
    /\ InitOthers
    /\ last = [op |-> "init", arg |-> "", outcome |-> "", req |-> NoReq,
               err |-> FALSE, hadSel |-> FALSE]

\* checkCapabilities() after the await: the body is parsed whatever the
\* status; updateCapabilityIndicators writes the three status texts, and an
\* unavailable scene management is reported with showError.  A transport
\* error or an unparsable body ends in the catch block.
checkCapabilitiesResponse(outcome, available) ==
    /\ pending[Key("health", NoScene)] > 0
    /\ pending' = Deliver("health", NoScene)
    /\ IF outcome = "transport"
       THEN /\ UNCHANGED capability
            /\ last' = Did("healthResponse", "", outcome, NoReq, TRUE)
       ELSE /\ capability' = IF available THEN "yes" ELSE "no"
            /\ last' = Did("healthResponse", "", outcome, NoReq, ~available)
    /\ UNCHANGED <<currentScene, selectedObjects, modal, exportBtnsDisabled,
                   selectiveBtnDisabled, selectionInfo, latestLoad, toggledIn,
                   individualSelect, suppliedId, previewSrc, preselect, sceneName,
                   others>>

NextStartup ==
    \/ \E r \in Outcomes, a \in BOOLEAN : checkCapabilitiesResponse(r, a)
    \/ \E r \in Outcomes : loadScenesListResponse(r)
    \/ unloadScene
    \/ \E s \in SceneIds : loadScene(s)
    \/ \E s \in SceneIds, r \in Outcomes : loadSceneResponse(s, r)
    \/ generateScenePreview
    \/ \E r \in Outcomes, u \in PreviewUrls : generateScenePreviewResponse(r, u)
    \/ validateScene
    \/ \E r \in Outcomes, v \in BOOLEAN : validateSceneResponse(r, v)
    \/ closeModal
    \/ showCreateSceneModal
    \/ \E n \in Names : typeSceneName(n)
    \/ submitCreateScene
    \/ \E r \in Outcomes, s \in SceneIds : createSceneResponse(r, s)

SpecStartup ==
    InitStartup /\ [][NextStartup]_vars

\* ------------------------------------------- status log of the model form

\* Most calls of updateStatusMessage in one run.
MaxPosts ==
    7

\* The messages updateStatusMessage is called with
Messages ==
    {"Selected object type: cube", "Generating model..."}

\* `statusContainer.children.length > 5`
MaxStatusItems ==
    5

\* the loop with removeChild(statusContainer.lastChild) in place of firstChild
RemoveOldest_RemovesNewest(children) ==
    SubSeq(children, 1, Len(children) - 1)

\* statusContainer.removeChild(statusContainer.firstChild)
RemoveOldest(children) ==
    Tail(children)

\* while (statusContainer.children.length > 5) removeChild(firstChild)
RECURSIVE KeepLastItems(_)
KeepLastItems(children) ==
    IF Len(children) > MaxStatusItems THEN KeepLastItems(RemoveOldest(children))
    ELSE children

\* the children of #status-container after updateStatusMessage(message)
StatusAfter(children, message) ==
    KeepLastItems(Append(children, message))

\* updateStatusMessage(message), as the change handler of the object type
\* inputs calls it
updateStatusMessage(message) ==
    /\ Len(posted) < MaxPosts
    /\ statusContainer' = StatusAfter(statusContainer, message)
    /\ posted' = Append(posted, message)
    /\ UNCHANGED <<sceneVars, debounceVars, formVars, aiVars>>

NextStatus ==
    \E m \in Messages : updateStatusMessage(m)

SpecStatus ==
    Init /\ [][NextStatus]_vars

\* ------------------------------------------------------------- debounce

\* The `wait` argument of debounce(func, wait), in time units.
DebounceWait ==
    2

\* Most calls of the debounced function in one run.
MaxCalls ==
    4

\* The arguments the debounced function is called with
CallArgs ==
    {"a", "b"}

\* a call that leaves a running timer as it is
Rearm_KeepsRunning(left) ==
    IF left # NoTimer THEN left ELSE DebounceWait

\* clearTimeout(timeout); timeout = setTimeout(later, wait)
Rearm(left) ==
    DebounceWait

\* executedFunction(...args): the armed timer, if any, is cleared and a new
\* one is set whose closure `later` holds these args
executedFunction(args) ==
    /\ calls < MaxCalls
    /\ calls' = calls + 1
    /\ timeout' = Rearm(timeout)
    /\ laterArgs' = args
    /\ lastArgs' = args
    /\ sinceCall' = 0
    /\ burstOpen' = TRUE
    /\ UNCHANGED <<invoked, sceneVars, statusVars, formVars, aiVars>>

\* one time unit passes; a timer that is due may still be waiting for its turn
tick ==
    /\ timeout' = IF timeout > 0 THEN timeout - 1 ELSE timeout
    /\ sinceCall' = IF sinceCall < DebounceWait THEN sinceCall + 1 ELSE sinceCall
    /\ UNCHANGED <<laterArgs, lastArgs, burstOpen, invoked, calls, sceneVars,
                   statusVars, formVars, aiVars>>

\* later(): the timer is due and runs; clearTimeout(timeout); func(...args)
later ==
    /\ timeout = 0
    /\ timeout' = NoTimer
    /\ invoked' = Append(invoked, laterArgs)
    /\ burstOpen' = FALSE
    /\ UNCHANGED <<laterArgs, lastArgs, sinceCall, calls, sceneVars, statusVars,
                   formVars, aiVars>>

NextDebounce ==
    \/ \E a \in CallArgs : executedFunction(a)
    \/ tick
    \/ later

\* Time passes and a due timer runs; the calls come to an end (MaxCalls).
SpecDebounce ==
    Init /\ [][NextDebounce]_vars /\ WF_vars(tick) /\ WF_vars(later)

\* ------------------------------------------------------- the model form

\* Most runs of generateModel and exportModel under way at once.
MaxRuns ==
    1

\* Most fields of a form that differ from NominalForm.
MaxEdits ==
    1

\* The entries a field is given: the ends of its range, values next to them
\* on either side, and zero
FieldValues(field) ==
    CASE field = "object_type" -> {Absent, Text("cube")}
      [] field = "size" -> {NumberText(n) : n \in {0, 1, 20, 100, 101}}
      [] field = "pos_x" -> {NumberText(n) : n \in {0 - 101, 0 - 100, 0, 10, 100, 101}}
      [] field \in {"rot_x", "rot_y", "rot_z"} ->
            {NumberText(n) : n \in {0 - 1801, 0 - 1800, 0, 1800, 1801}}
      [] field = "color" -> {Text("#ff0000")}
      [] field \in {"metallic", "roughness"} ->
            {NumberText(n) : n \in {0 - 1, 0, 5, 10, 11}}
      [] field = "emission" -> {Absent, Text("on")}
      [] field = "emission_strength" -> {NumberText(n) : n \in {0 - 1, 0, 10, 100, 101}}

\* The forms with at most k fields changed
RECURSIVE Edited(_)
Edited(k) ==
    IF k = 0 THEN {NominalForm}
    ELSE Edited(k - 1) \cup
         {[g EXCEPT ![f] = v] :
            g \in Edited(k - 1),
            <<f, v>> \in UNION {{<<x, y>> : y \in FieldValues(x)} : x \in Fields}}

Forms ==
    Edited(MaxEdits)

\* The rules of validateForm; a rule without min or max has hasMin or hasMax
\* FALSE
Rule(required, hasMin, min, hasMax, max) ==
    [required |-> required, hasMin |-> hasMin, min |-> min,
     hasMax |-> hasMax, max |-> max]

Rules(field) ==
    CASE field = "object_type" -> Rule(TRUE, FALSE, 0, FALSE, 0)
      [] field = "size" -> Rule(TRUE, TRUE, 1, TRUE, 100)
      [] field = "pos_x" -> Rule(TRUE, TRUE, 0 - 100, TRUE, 100)
      [] field \in {"rot_x", "rot_y", "rot_z"} -> Rule(FALSE, TRUE, 0 - 1800, TRUE, 1800)
      [] field \in {"metallic", "roughness"} -> Rule(FALSE, TRUE, 0, TRUE, 10)
      [] field = "emission_strength" -> Rule(FALSE, TRUE, 0, TRUE, 100)
      [] OTHER -> Rule(FALSE, FALSE, 0, FALSE, 0)

\* FormUtils.serialize(form): a radio entry is kept as text, a checkbox entry
\* goes into an array, any other entry becomes a number if parseFloat reads
\* one and stays text otherwise; a control without entry gives no key
serialize(form) ==
    [f \in Fields |->
        IF form[f].t = "absent" THEN Undefined
        ELSE IF InputType(f) = "radio" THEN Str(form[f].s)
        ELSE IF InputType(f) = "checkbox" THEN Arr(form[f].s)
        ELSE IF form[f].t = "number" THEN Num(form[f].n)
        ELSE Str(form[f].s)]

\* `!value || value === ''`
Falsy(value) ==
    \/ value.t = "undefined"
    \/ value.t = "number" /\ value.n = 0
    \/ value.t = "string" /\ value.s = ""

\* `ruleSet.min && value < ruleSet.min`: a min of 0 is falsy, and a value that
\* is no number compares false
BelowMin(value, rule) ==
    /\ rule.hasMin /\ rule.min # 0
    /\ value.t = "number" /\ value.n < rule.min

\* `ruleSet.max && value > ruleSet.max`
AboveMax(value, rule) ==
    /\ rule.hasMax /\ rule.max # 0
    /\ value.t = "number" /\ value.n > rule.max

\* The errors FormUtils.validate collects, as pairs of field and complaint
ValidationErrors(data) ==
    UNION {IF Rules(f).required /\ Falsy(data[f]) THEN {<<f, "is required">>}
           ELSE (IF BelowMin(data[f], Rules(f)) THEN {<<f, "must be at least">>} ELSE {})
                \cup
                (IF AboveMax(data[f], Rules(f)) THEN {<<f, "must be at most">>} ELSE {})
           : f \in Fields}

\* FormUtils.validate(form, rules) with the rules of validateForm
validate(form) ==
    [isValid |-> ValidationErrors(serialize(form)) = {},
     errors |-> ValidationErrors(serialize(form)),
     data |-> serialize(form)]

\* the record left by a handler of another component
NoFormOp ==
    [op |-> "other", outcome |-> "", err |-> FALSE, post |-> NoPost]

NoAIOp ==
    [op |-> "other", outcome |-> "", err |-> FALSE, sent |-> FALSE]

ModelIds ==
    {"m1", "m2"}

Post(endpoint, model, data) ==
    [endpoint |-> endpoint, model |-> model, data |-> data]

FormDid(op, outcome, err, post) ==
    [op |-> op, outcome |-> outcome, err |-> err, post |-> post]

\* generateModel() up to its first await, the first timer of simulateProgress
generateModel ==
    /\ IF ~validate(formValues).isValid
       THEN \* notifications.error(...); return; the finally block hides the modal
            /\ progressModalShown' = FALSE
            /\ formLast' = FormDid("generateModel", "", TRUE, NoPost)
            /\ UNCHANGED <<progressRuns, statusContainer>>
       ELSE /\ progressRuns + generatePending + exportPending < MaxRuns
            /\ progressModalShown' = TRUE
            /\ statusContainer' = StatusAfter(statusContainer, "Generating model...")
            /\ progressRuns' = progressRuns + 1
            /\ formLast' = FormDid("generateModel", "", FALSE, NoPost)
    /\ UNCHANGED <<formValues, currentModel, exportBtn, generatePending,
                   exportPending, latestModel, posted, sceneVars, debounceVars,
                   aiState>>
    /\ aiLast' = NoAIOp

\* generateModel() from the end of simulateProgress to the await of
\* API.post('/api/generate', validation.data).  The form is not edited while
\* a run is under way, so validation.data is what the form serializes to.
simulateProgress ==
    /\ progressRuns > 0
    /\ progressRuns' = progressRuns - 1
    /\ generatePending' = generatePending + 1
    /\ formLast' = FormDid("simulateProgress", "", FALSE,
                           Post("/api/generate", NoModel, validate(formValues).data))
    /\ UNCHANGED <<formValues, currentModel, exportBtn, progressModalShown,
                   exportPending, latestModel, statusVars, sceneVars,
                   debounceVars, aiState>>
    /\ aiLast' = NoAIOp

\* enableExport() of ModelFormController
enableExport ==
    [disabled |-> FALSE, onclick |-> TRUE]

\* generateModel() after the await of API.post: the response is a model
\* (API.request throws unless response.ok), with or without preview_url
generateModelResponse(outcome, id, hasPreview) ==
    /\ generatePending > 0
    /\ generatePending' = generatePending - 1
    /\ IF outcome = "success"
       THEN /\ currentModel' = id
            /\ latestModel' = id
            /\ statusContainer' =
                 LET generated == StatusAfter(statusContainer, "Model generated successfully")
                 IN IF hasPreview THEN generated
                    ELSE StatusAfter(generated, "No preview available for this model")
            /\ exportBtn' = enableExport
       ELSE /\ statusContainer' = StatusAfter(statusContainer, "Error")
            /\ UNCHANGED <<currentModel, latestModel, exportBtn>>
    /\ progressModalShown' = FALSE
    /\ formLast' = FormDid("generateResponse", outcome, outcome # "success", NoPost)
    /\ UNCHANGED <<formValues, progressRuns, exportPending, posted, sceneVars,
                   debounceVars, aiState>>
    /\ aiLast' = NoAIOp

\* exportModel() without its check of currentModel
ExportModelBy_NoCheck(op) ==
    /\ progressRuns + generatePending + exportPending < MaxRuns
    /\ exportPending' = exportPending + 1
    /\ formLast' = FormDid(op, "", FALSE,
                           Post("/api/export", currentModel,
                                [f \in Fields |-> Undefined]))
    /\ UNCHANGED <<formValues, currentModel, exportBtn, progressModalShown,
                   progressRuns, generatePending, latestModel, statusVars,
                   sceneVars, debounceVars, aiState>>
    /\ aiLast' = NoAIOp

\* the body of exportModel(), run by handler op
ExportModelBy(op) ==
    /\ IF currentModel = NoModel
       THEN \* notifications.error('No model to export'); return
            /\ formLast' = FormDid(op, "", TRUE, NoPost)
            /\ UNCHANGED exportPending
       ELSE /\ progressRuns + generatePending + exportPending < MaxRuns
            /\ exportPending' = exportPending + 1
            /\ formLast' = FormDid(op, "", FALSE,
                                   Post("/api/export", currentModel,
                                        [f \in Fields |-> Undefined]))
    /\ UNCHANGED <<formValues, currentModel, exportBtn, progressModalShown,
                   progressRuns, generatePending, latestModel, statusVars,
                   sceneVars, debounceVars, aiState>>
    /\ aiLast' = NoAIOp

\* exportModel() up to the await of API.post('/api/export', ...)
exportModel ==
    ExportModelBy("exportModel")

\* a click on #export-btn: an enabled button runs its onclick handler, which
\* is exportModel() once enableExport of the form has set it
clickExport ==
    /\ ~exportBtn.disabled
    /\ IF exportBtn.onclick THEN ExportModelBy("clickExport")
       ELSE /\ formLast' = FormDid("clickExport", "", FALSE, NoPost)
            /\ UNCHANGED <<formValues, currentModel, exportBtn, progressModalShown,
                           progressRuns, generatePending, exportPending,
                           latestModel, statusVars, sceneVars, debounceVars,
                           aiState>>
            /\ aiLast' = NoAIOp

\* exportModel() after the await: the download link or the error notification
exportModelResponse(outcome) ==
    /\ exportPending > 0
    /\ exportPending' = exportPending - 1
    /\ formLast' = FormDid("exportResponse", outcome, outcome # "success", NoPost)
    /\ UNCHANGED <<formValues, currentModel, exportBtn, progressModalShown,
                   progressRuns, generatePending, latestModel, statusVars,
                   sceneVars, debounceVars, aiState>>
    /\ aiLast' = NoAIOp

\* The page with any of the forms filled in
InitValidate ==
    /\ currentScene = NoScene
    /\ selectedObjects = <<>>
    /\ pending = [r \in Requests |-> 0]
    /\ modal = NoModal
    /\ exportBtnsDisabled = TRUE
    /\ selectiveBtnDisabled = TRUE
    /\ selectionInfo = 0
    /\ latestLoad = NoScene
    /\ toggledIn = {}
    /\ individualSelect = ""
    /\ previewSrc = ""
    /\ preselect = {}
    /\ capability = "yes"
    /\ sceneName = <<>>
    /\ suppliedId = ""
    /\ last = [op |-> "init", arg |-> "", outcome |-> "", req |-> NoReq,
               err |-> FALSE, hadSel |-> FALSE]
    /\ statusContainer = <<>>
    /\ posted = <<>>
    /\ timeout = NoTimer
    /\ laterArgs = ""
    /\ lastArgs = ""
    /\ sinceCall = 0
    /\ burstOpen = FALSE
    /\ invoked = <<>>
    /\ calls = 0
    /\ formValues \in Forms
    /\ currentModel = NoModel
    /\ exportBtn = [disabled |-> TRUE, onclick |-> FALSE]
    /\ progressModalShown = FALSE
    /\ progressRuns = 0
    /\ generatePending = 0
    /\ exportPending = 0
    /\ latestModel = NoModel
    /\ formLast = [op |-> "init", outcome |-> "", err |-> FALSE, post |-> NoPost]
    /\ aiConfigured = TRUE
    /\ aiHealthPending = FALSE
    /\ openBtnDisabled = FALSE
    /\ aiModalOpen = FALSE
    /\ isGenerating = FALSE
    /\ aiDescription = ""
    /\ submitBtnDisabled = FALSE
    /\ aiPending = 0
    /\ closeTimers = 0
    /\ lastGeneratedModel = NoModel
    /\ aiLast = [op |-> "init", outcome |-> "", err |-> FALSE, sent |-> FALSE]
    /\ InitAIScene

NextValidate ==
    \/ generateModel
    \/ simulateProgress
    \/ \E r \in Outcomes, i \in ModelIds, p \in BOOLEAN : generateModelResponse(r, i, p)
    \/ exportModel
    \/ \E r \in Outcomes : exportModelResponse(r)

SpecValidate ==
    InitValidate /\ [][NextValidate]_vars

\* ------------------------------------------------- the AI model generator

\* Most POST /api/ai/generate requests in flight at once, and most timers of
\* handleSubmit outstanding at once.
MaxAIRequests ==
    2

\* What #ai-description holds: nothing, fewer than 10 characters, or more
Descriptions ==
    {"", "short", "long"}

AIDid(op, outcome, err, sent) ==
    [op |-> op, outcome |-> outcome, err |-> err, sent |-> sent]

\* validateForm(): the value it gives to submitBtn.disabled
SubmitDisabled(description, generating) ==
    ~(description = "long") \/ generating

\* checkAIAvailability() after the await: the body, read whatever the status,
\* carries ai_available as the server has it; a failed fetch or an unreadable
\* body ends in the catch block, which only logs
checkAIAvailabilityResponse(outcome) ==
    /\ aiHealthPending
    /\ aiHealthPending' = FALSE
    /\ openBtnDisabled' = IF outcome # "transport" /\ ~aiConfigured THEN TRUE
                          ELSE openBtnDisabled
    /\ aiLast' = AIDid("healthResponse", outcome, outcome = "transport", FALSE)
    /\ UNCHANGED <<aiConfigured, aiModalOpen, isGenerating, aiDescription,
                   submitBtnDisabled, aiPending, closeTimers, lastGeneratedModel,
                   sceneVars, statusVars, debounceVars, formState>>
    /\ formLast' = NoFormOp

\* openModal(), the click handler of #ai-generate-btn; resetForm empties the
\* description, so validateForm disables the submit button
openModal ==
    /\ IF openBtnDisabled
       THEN UNCHANGED <<aiModalOpen, aiDescription, submitBtnDisabled>>
       ELSE /\ aiModalOpen' = TRUE
            /\ aiDescription' = ""
            /\ submitBtnDisabled' = SubmitDisabled("", isGenerating)
    /\ aiLast' = AIDid("openModal", "", FALSE, FALSE)
    /\ UNCHANGED <<aiConfigured, aiHealthPending, openBtnDisabled, isGenerating,
                   aiPending, closeTimers, lastGeneratedModel, sceneVars,
                   statusVars, debounceVars, formState>>
    /\ formLast' = NoFormOp

\* the body of closeModal() of AIModelGenerator; `confirmed` is the answer to
\* the confirm dialog, asked only while isGenerating
CloseAIModal(confirmed) ==
    IF isGenerating /\ ~confirmed
    THEN UNCHANGED <<aiModalOpen, aiDescription, submitBtnDisabled, isGenerating>>
    ELSE /\ aiModalOpen' = FALSE
         /\ aiDescription' = ""
         /\ submitBtnDisabled' = SubmitDisabled("", isGenerating)
         /\ isGenerating' = FALSE

\* closeModal() of AIModelGenerator, from the close button, the cancel button
\* or a click on the backdrop
closeAIModal(confirmed) ==
    /\ aiModalOpen
    /\ CloseAIModal(confirmed)
    /\ aiLast' = AIDid("closeModal", "", FALSE, FALSE)
    /\ UNCHANGED <<aiConfigured, aiHealthPending, openBtnDisabled, aiPending,
                   closeTimers, lastGeneratedModel, sceneVars, statusVars,
                   debounceVars, formState>>
    /\ formLast' = NoFormOp

\* an input event of #ai-description: validateForm()
typeDescription(description) ==
    /\ aiModalOpen
    /\ aiDescription' = description
    /\ submitBtnDisabled' = SubmitDisabled(description, isGenerating)
    /\ aiLast' = AIDid("input", "", FALSE, FALSE)
    /\ UNCHANGED <<aiConfigured, aiHealthPending, openBtnDisabled, aiModalOpen,
                   isGenerating, aiPending, closeTimers, lastGeneratedModel,
                   sceneVars, statusVars, debounceVars, formState>>
    /\ formLast' = NoFormOp

\* handleSubmit(event) up to `await fetch('/api/ai/generate')`; the form is
\* submitted with its enabled submit button
handleSubmit ==
    /\ aiModalOpen /\ ~submitBtnDisabled
    /\ IF isGenerating
       THEN /\ aiLast' = AIDid("handleSubmit", "", FALSE, FALSE)
            /\ UNCHANGED <<isGenerating, aiPending>>
       ELSE IF aiDescription = ""
       THEN \* showError('Please enter a description ...')
            /\ aiLast' = AIDid("handleSubmit", "", TRUE, FALSE)
            /\ UNCHANGED <<isGenerating, aiPending>>
       ELSE /\ aiPending < MaxAIRequests
            /\ isGenerating' = TRUE
            /\ aiPending' = aiPending + 1
            /\ aiLast' = AIDid("handleSubmit", "", FALSE, TRUE)
    /\ UNCHANGED <<aiConfigured, aiHealthPending, openBtnDisabled, aiModalOpen,
                   aiDescription, submitBtnDisabled, closeTimers,
                   lastGeneratedModel, sceneVars, statusVars, debounceVars,
                   formState>>
    /\ formLast' = NoFormOp

\* the three entries handleGenerationSuccess writes as the innerHTML of
\* #status-container
AIStatusItems ==
    <<"AI model generated successfully", "Model ID", "Type (AI Generated)">>

\* enableExport(modelData) of AIModelGenerator: the button is enabled, its
\* onclick is left as it is
enableExportAI(btn) ==
    [btn EXCEPT !.disabled = FALSE]

\* handleSubmit(event) after the await: handleGenerationSuccess and the timer
\* that closes the modal, or showError; then the finally block
handleSubmitResponse(outcome, id) ==
    /\ aiPending > 0
    /\ aiPending' = aiPending - 1
    /\ IF outcome = "success"
       THEN /\ closeTimers < MaxAIRequests
            /\ statusContainer' = AIStatusItems
            /\ exportBtn' = enableExportAI(exportBtn)
            /\ lastGeneratedModel' = id
            /\ latestModel' = id
            /\ closeTimers' = closeTimers + 1
       ELSE UNCHANGED <<statusContainer, exportBtn, lastGeneratedModel,
                        latestModel, closeTimers>>
    /\ isGenerating' = FALSE
    /\ submitBtnDisabled' = SubmitDisabled(aiDescription, FALSE)
    /\ aiLast' = AIDid("generateResponse", outcome, outcome # "success", FALSE)
    /\ UNCHANGED <<aiConfigured, aiHealthPending, openBtnDisabled, aiModalOpen,
                   aiDescription, formValues, currentModel, progressModalShown,
                   progressRuns, generatePending, exportPending, posted,
                   sceneVars, debounceVars>>
    /\ formLast' = NoFormOp

\* the timer of handleSubmit fires, 1500 ms after a success: closeModal()
closeTimer(confirmed) ==
    /\ closeTimers > 0
    /\ closeTimers' = closeTimers - 1
    /\ CloseAIModal(confirmed)
    /\ aiLast' = AIDid("closeTimer", "", FALSE, FALSE)
    /\ UNCHANGED <<aiConfigured, aiHealthPending, openBtnDisabled, aiPending,
                   lastGeneratedModel, sceneVars, statusVars, debounceVars,
                   formState>>
    /\ formLast' = NoFormOp

\* The page right after `new AIModelGenerator()`: the GET /api/health of
\* checkAIAvailability is in flight, and the server has an API key or not
InitAI ==
    /\ currentScene = NoScene
    /\ selectedObjects = <<>>
    /\ pending = [r \in Requests |-> 0]
    /\ modal = NoModal
    /\ exportBtnsDisabled = TRUE
    /\ selectiveBtnDisabled = TRUE
    /\ selectionInfo = 0
    /\ latestLoad = NoScene
    /\ toggledIn = {}
    /\ individualSelect = ""
    /\ previewSrc = ""
    /\ preselect = {}
    /\ capability = "yes"
    /\ sceneName = <<>>
    /\ suppliedId = ""
    /\ last = [op |-> "init", arg |-> "", outcome |-> "", req |-> NoReq,
               err |-> FALSE, hadSel |-> FALSE]
    /\ statusContainer = <<>>
    /\ posted = <<>>
    /\ timeout = NoTimer
    /\ laterArgs = ""
    /\ lastArgs = ""
    /\ sinceCall = 0
    /\ burstOpen = FALSE
    /\ invoked = <<>>
    /\ calls = 0
    /\ formValues = NominalForm
    /\ currentModel = NoModel
    /\ exportBtn = [disabled |-> TRUE, onclick |-> FALSE]
    /\ progressModalShown = FALSE
    /\ progressRuns = 0
    /\ generatePending = 0
    /\ exportPending = 0
    /\ latestModel = NoModel
    /\ formLast = [op |-> "init", outcome |-> "", err |-> FALSE, post |-> NoPost]
    /\ aiConfigured \in BOOLEAN
    /\ aiHealthPending = TRUE
    /\ openBtnDisabled = FALSE
    /\ aiModalOpen = FALSE
    /\ isGenerating = FALSE
    /\ aiDescription = ""
    /\ submitBtnDisabled = FALSE
    /\ aiPending = 0
    /\ closeTimers = 0
    /\ lastGeneratedModel = NoModel
    /\ aiLast = [op |-> "init", outcome |-> "", err |-> FALSE, sent |-> FALSE]
    /\ InitAIScene

\* The AI modal and its requests
NextGenerate ==
    \/ openModal
    \/ \E c \in BOOLEAN : closeAIModal(c)
    \/ \E d \in Descriptions : typeDescription(d)
    \/ handleSubmit
    \/ \E r \in Outcomes, i \in ModelIds : handleSubmitResponse(r, i)
    \/ \E c \in BOOLEAN : closeTimer(c)

NextAI ==
    \/ \E r \in Outcomes : checkAIAvailabilityResponse(r)
    \/ NextGenerate

SpecAI ==
    InitAI /\ [][NextAI]_vars

\* The model form with its export button
NextExport ==
    \/ generateModel
    \/ simulateProgress
    \/ \E r \in Outcomes, i \in ModelIds, p \in BOOLEAN : generateModelResponse(r, i, p)
    \/ exportModel
    \/ clickExport
    \/ \E r \in Outcomes : exportModelResponse(r)

\* The model form and the AI generator on one page, sharing #export-btn and
\* #status-container
NextForm ==
    \/ generateModel
    \/ simulateProgress
    \/ \E r \in Outcomes, i \in ModelIds, p \in BOOLEAN : generateModelResponse(r, i, p)
    \/ exportModel
    \/ clickExport
    \/ \E r \in Outcomes : exportModelResponse(r)
    \/ openModal
    \/ \E d \in Descriptions : typeDescription(d)
    \/ handleSubmit
    \/ \E r \in Outcomes, i \in ModelIds : handleSubmitResponse(r, i)
    \/ \E c \in BOOLEAN : closeTimer(c)

\* The page with the buttons of the scene manager disabled in its markup
InitForm ==
    Init /\ exportBtnsDisabled /\ selectiveBtnDisabled

\* The AI generator once /api/health has reported AI as available
SpecGenerate ==
    InitForm /\ [][NextGenerate]_vars

SpecExport ==
    InitForm /\ [][NextExport]_vars

SpecForm ==
    InitForm /\ [][NextForm]_vars

\* ------------------------------------------------- AI scene generation

\* The descriptions typed into the AI scene form, trimmed
SceneDescriptions ==
    {"", "a room"}

\* showAISceneModal(): the modal is shown and the form reset; the submit
\* button is not touched
showAISceneModal ==
    /\ aiSceneModalOpen' = TRUE
    /\ aiSceneDescription' = ""
    /\ aiSceneReopened' = TRUE
    /\ last' = Did("showAISceneModal", "", "", NoReq, FALSE)
    /\ UNCHANGED <<pending, latestLoad, aiSceneSubmit, aiSceneTimers,
                   loadAtGeneration, generatedLoad, sceneRest>>

\* hideAISceneModal(), from the close and the cancel button
hideAISceneModal ==
    /\ aiSceneModalOpen
    /\ aiSceneModalOpen' = FALSE
    /\ last' = Did("hideAISceneModal", "", "", NoReq, FALSE)
    /\ UNCHANGED <<pending, latestLoad, aiSceneDescription, aiSceneSubmit,
                   aiSceneTimers, aiSceneReopened, loadAtGeneration,
                   generatedLoad, sceneRest>>

\* the user writes into the description field of the open modal
typeAISceneDescription(description) ==
    /\ aiSceneModalOpen
    /\ aiSceneDescription' = description
    /\ last' = Did("typeAISceneDescription", "", "", NoReq, FALSE)
    /\ UNCHANGED <<pending, latestLoad, aiSceneModalOpen, aiSceneSubmit,
                   aiSceneTimers, aiSceneReopened, loadAtGeneration,
                   generatedLoad, sceneRest>>

\* A click on the enabled submit button of the open modal.  The onclick
\* handler, if one is set, runs first: hideAISceneModal() and
\* loadGeneratedScene(view) up to the fetch of loadScenesList.  The click then
\* submits the form: submitAISceneGeneration() up to `await fetch`.
clickAISceneSubmit ==
    /\ aiSceneModalOpen /\ ~aiSceneSubmit.disabled
    /\ LET view == aiSceneSubmit.view
           viewed == IF view = NoScene THEN pending
                     ELSE [pending EXCEPT ![Key("viewList", view)] = @ + 1]
           fetches == (IF view = NoScene THEN 0 ELSE 1)
                        + (IF aiSceneDescription = "" THEN 0 ELSE 1)
       IN /\ InFlight + fetches <= MaxInFlight
          /\ aiSceneModalOpen' = (view = NoScene)
          /\ IF aiSceneDescription = ""
             THEN \* showError('Please provide a scene description')
                  /\ pending' = viewed
                  /\ UNCHANGED aiSceneSubmit
                  /\ last' = Did("submitAISceneGeneration", view, "", NoReq, TRUE)
             ELSE /\ pending' = [viewed EXCEPT ![Key("aiScene", NoScene)] = @ + 1]
                  /\ aiSceneSubmit' = [aiSceneSubmit EXCEPT !.disabled = TRUE]
                  /\ last' = Did("submitAISceneGeneration", view, "",
                                 Req("aiScene", NoScene, <<>>, FALSE), FALSE)
    /\ UNCHANGED <<latestLoad, aiSceneDescription, aiSceneTimers,
                   aiSceneReopened, loadAtGeneration, generatedLoad, sceneRest>>

\* submitAISceneGeneration() after the await.  With response.ok and a
\* scene_id the button becomes 'View Generated Scene' with an onclick handler
\* for that scene and the 3000 ms auto-load timer is set; otherwise the error
\* is shown and the finally block enables the button again, handler and all.
submitAISceneResponse(outcome, sceneId) ==
    /\ pending[Key("aiScene", NoScene)] > 0
    /\ pending' = Deliver("aiScene", NoScene)
    /\ IF outcome = "success"
       THEN /\ aiSceneSubmit' = [disabled |-> FALSE, view |-> sceneId]
            /\ aiSceneTimers' = aiSceneTimers \cup {sceneId}
            /\ aiSceneReopened' = FALSE
            /\ loadAtGeneration' = [loadAtGeneration EXCEPT ![sceneId] = latestLoad]
            /\ last' = Did("aiSceneResponse", sceneId, outcome, NoReq, FALSE)
       ELSE /\ aiSceneSubmit' = [aiSceneSubmit EXCEPT !.disabled = FALSE]
            /\ last' = Did("aiSceneResponse", "", outcome, NoReq, TRUE)
            /\ UNCHANGED <<aiSceneTimers, aiSceneReopened, loadAtGeneration>>
    /\ UNCHANGED <<latestLoad, aiSceneModalOpen, aiSceneDescription,
                   generatedLoad, sceneRest>>

\* the auto-load timer of a generation fires: loadGeneratedScene(sceneId) up
\* to the fetch of loadScenesList
autoLoadTimer(sceneId) ==
    /\ sceneId \in aiSceneTimers
    /\ InFlight < MaxInFlight
    /\ aiSceneTimers' = aiSceneTimers \ {sceneId}
    /\ pending' = Fetch("autoList", sceneId)
    /\ last' = Did("autoLoadTimer", sceneId, "", NoReq, FALSE)
    /\ UNCHANGED <<latestLoad, aiSceneModalOpen, aiSceneDescription,
                   aiSceneSubmit, aiSceneReopened, loadAtGeneration,
                   generatedLoad, sceneRest>>

\* loadGeneratedScene(sceneId) after `await this.loadScenesList()`, which
\* handles its response and its errors itself: sceneSelect.value = sceneId
\* and loadScene(sceneId) up to its fetch
loadGeneratedScene(kind, sceneId, outcome) ==
    /\ pending[Key(kind, sceneId)] > 0
    /\ pending' = [pending EXCEPT ![Key(kind, sceneId)] = @ - 1,
                                  ![Key("load", sceneId)] = @ + 1]
    /\ latestLoad' = sceneId
    /\ generatedLoad' = sceneId
    /\ last' = Did("loadGeneratedScene", sceneId, outcome,
                   Req("load", sceneId, <<>>, FALSE), outcome # "success")
    /\ UNCHANGED <<aiSceneModalOpen, aiSceneDescription, aiSceneSubmit,
                   aiSceneTimers, aiSceneReopened, loadAtGeneration, sceneRest>>

NextAIScene ==
    \/ showAISceneModal
    \/ hideAISceneModal
    \/ \E d \in SceneDescriptions : typeAISceneDescription(d)
    \/ clickAISceneSubmit
    \/ \E r \in Outcomes, s \in SceneIds : submitAISceneResponse(r, s)
    \/ \E s \in SceneIds : autoLoadTimer(s)
    \/ \E k \in {"viewList", "autoList"}, s \in SceneIds, r \in Outcomes :
          loadGeneratedScene(k, s, r)
    \/ \E s \in SceneIds : loadScene(s)
    \/ \E s \in SceneIds, r \in Outcomes : loadSceneResponse(s, r)

SpecAIScene ==
    InitForm /\ [][NextAIScene]_vars

\* --------------------------------------------------------------- claims

\* C1: in every reachable state every id in the Selection is the id of an
\* object of the currently loaded scene; with no scene loaded the Selection
\* is empty.
C1_SelectionWithinScene ==
    Range(selectedObjects) \subseteq ObjectIdsOf(currentScene)

\* C2: once the most recently requested scene is the current scene, a late
\* response to an earlier load of another scene is dropped: handling it
\* changes neither the current scene nor the Selection.
C2_StaleLoadDropped ==
    [][(/\ last'.op = "loadResponse"
        /\ latestLoad # NoScene
        /\ last'.arg # latestLoad
        /\ currentScene = latestLoad)
          => UNCHANGED <<currentScene, selectedObjects>>]_vars

\* C3: a selective export with an empty Selection, whether at opening the
\* export dialog or at executing the export, issues no request and shows an
\* error.
C3_NoEmptySelectiveExport ==
    (/\ last.op \in {"showExportModal", "executeExport"}
     /\ last.arg = "selective"
     /\ selectedObjects = <<>>)
        => (last.req = NoReq /\ last.err)

\* C4: preview, export and validation invoked with no scene loaded, or while
\* a scene load is in flight, issue no request and show an error.
C4_FailFastUnlessLoaded ==
    (/\ last.op \in {"preview", "executeExport", "validate"}
     /\ (currentScene = NoScene \/ LoadInFlight))
        => (last.req = NoReq /\ last.err)

\* C5: right after a scene load completed successfully the Selection is
\* empty, whatever it held before.
C5_LoadClearsSelection ==
    (last.op = "loadResponse" /\ last.outcome = "success")
        => selectedObjects = <<>>

\* C5 witness: a load completed successfully while objects were selected.
C5_Witness ==
    /\ last.op = "loadResponse"
    /\ last.outcome = "success"
    /\ last.hadSel
    /\ selectedObjects = <<>>

\* C6: right after a scene load failed (success=false or transport failure)
\* there is no current scene and an error was shown.
C6_FailedLoadUnloads ==
    (last.op = "loadResponse" /\ last.outcome # "success")
        => (currentScene = NoScene /\ last.err)

\* C7: for the whole time a scene load is in flight there is no current scene
\* and the Selection is empty.
C7_LoadingHasNoScene ==
    LoadInFlight => (currentScene = NoScene /\ selectedObjects = <<>>)

\* C8: right after unloading (loadScene with an empty id) the Selection is
\* empty and the current scene is null.
C8_UnloadClearsSelection ==
    last.op = "unload" => (selectedObjects = <<>> /\ currentScene = NoScene)

\* C9: on a loaded scene the Selection is exactly the set of ids whose last
\* toggle was selected=true, restricted to the ids of objects of the current
\* scene.
C9_SelectionIsToggledInScene ==
    currentScene # NoScene
        => Range(selectedObjects) = toggledIn \cap ObjectIdsOf(currentScene)

\* C10: toggleObjectSelection invoked with no scene loaded, or while a load is
\* in flight, leaves the Selection and the selection count unchanged.
C10_ToggleNoopUnlessLoaded ==
    [][(last'.op = "toggle" /\ (currentScene = NoScene \/ LoadInFlight))
          => UNCHANGED <<selectedObjects, selectionInfo>>]_vars

\* C13: at any time at most one request of the controller is in flight.
C13_AtMostOneInFlight ==
    InFlight <= 1

\* C14: right after every toggleObjectSelection, every completed scene load
\* and every unload, the displayed selection count equals the size of the
\* Selection and the selective-export button is enabled exactly when that
\* count is positive.
C14_SelectiveGatedByCount ==
    (\/ last.op \in {"toggle", "unload"}
     \/ (last.op = "loadResponse" /\ last.outcome = "success"))
        => (/\ selectionInfo = Len(selectedObjects)
            /\ selectiveBtnDisabled = (selectionInfo = 0))

\* C15: a preview displayed while an earlier preview of the same scene is on
\* display has a URL different from the earlier one, also when the server
\* answered with the same preview URL.
C15_PreviewUrlsDistinct ==
    [][(/\ last'.op = "previewResponse"
        /\ last'.outcome = "success"
        /\ previewSrc # ""
        /\ currentScene # NoScene)
          => previewSrc' # previewSrc]_vars

\* C16: preview, export and validation, at the request and at the response,
\* successful or failed, change neither the current scene nor the Selection.
C16_OpsKeepSession ==
    [][last'.op \in {"preview", "previewResponse", "executeExport",
                     "exportResponse", "validate", "validateResponse"}
          => UNCHANGED <<currentScene, selectedObjects>>]_vars

\* C16 witness: a successful response of one of the three operations was
\* handled on a loaded scene with objects selected.
C16_Witness ==
    /\ last.op \in {"previewResponse", "exportResponse", "validateResponse"}
    /\ last.outcome = "success"
    /\ currentScene # NoScene
    /\ selectedObjects # <<>>

C19_AutoFixOnlyOnDemand ==
    /\ (last.op = "validate" /\ last.req # NoReq) => ~last.req.autoFix
    /\ last.op = "validateResponse" => last.req = NoReq
    /\ last.op = "autoFix" => (last.req.kind = "validate" /\ last.req.autoFix)

\* C11: submitting the create-scene form while its trimmed name is empty
\* (the field holds nothing but white space, or there is no field) sends no
\* request, shows an error, and leaves the current scene and the Selection
\* as they were.
C11_BlankNameRejected ==
    [][(/\ last'.op = "submitCreate"
        /\ (modal.kind = "create"
              => \A i \in DOMAIN sceneName : sceneName[i] = " "))
          => (/\ last'.req = NoReq
              /\ last'.err
              /\ UNCHANGED <<pending, currentScene, selectedObjects>>)]_vars

\* C11 witness: a name of white space only was submitted and rejected while
\* a scene was loaded and an object selected.
C11_Witness ==
    /\ last.op = "submitCreate"
    /\ last.err
    /\ modal.kind = "create"
    /\ sceneName = <<" ">>
    /\ currentScene # NoScene
    /\ selectedObjects # <<>>

\* C12: handling a successful create response issues a load of the scene id
\* the server returned; handling a failed one issues no load; and handling a
\* successful load response makes the loaded scene the current scene.
C12_CreateThenLoad ==
    [][/\ (last'.op = "createResponse" /\ last'.outcome = "success")
            => (/\ last'.req = Req("load", last'.arg, <<>>, FALSE)
                /\ pending'[<<"load", last'.arg>>] = pending[<<"load", last'.arg>>] + 1
                /\ latestLoad' = last'.arg)
       /\ (last'.op = "createResponse" /\ last'.outcome # "success")
            => (/\ last'.req = NoReq
                /\ \A s \in SceneIds : pending'[<<"load", s>>] = pending[<<"load", s>>])
       /\ (last'.op = "loadResponse" /\ last'.outcome = "success")
            => currentScene' = last'.arg]_vars

\* C12 witness: a create response was handled successfully, the load of the
\* new scene is in flight and the new scene is not yet the current one.
C12_Witness ==
    /\ last.op = "createResponse"
    /\ last.outcome = "success"
    /\ pending[<<"load", last.arg>>] > 0
    /\ currentScene # last.arg

\* C18: an individual export with no object id given by the caller sends no
\* request and shows an error; a request that is sent carries exactly the id
\* the caller gave, by choosing it in the dropdown or by calling
\* exportIndividualObject with it.
C18_IndividualIdFromCaller ==
    [][(last'.op = "executeExport" /\ last'.arg = "individual")
          => (/\ suppliedId = "" => (last'.req = NoReq /\ last'.err)
              /\ last'.req # NoReq => (/\ suppliedId # ""
                                       /\ last'.req.ids = <<suppliedId>>))]_vars

\* C18 witness: an individual export request was sent for an object.
C18_Witness ==
    /\ last.op = "executeExport"
    /\ last.arg = "individual"
    /\ last.req.kind = "export"
    /\ last.req.ids = <<"o2">>

\* C20: once the health response has reported scene management unavailable,
\* the scene manager sends no request.
C20_UnavailableSendsNothing ==
    [][capability = "no" => last'.req = NoReq]_vars

\* C28: after any sequence of n calls of updateStatusMessage the status
\* container holds min(n, 5) entries, which are the most recent messages in
\* the order they were posted.
C28_StatusKeepsLastFive ==
    LET n == Len(posted)
        k == IF n < 5 THEN n ELSE 5
    IN /\ Len(statusContainer) = k
       /\ statusContainer = SubSeq(posted, n - k + 1, n)

\* C28 witness: six messages were posted, the first of which differs from
\* the sixth, so that the oldest entry was removed.
C28_Witness ==
    /\ Len(posted) = 6
    /\ posted[1] # posted[6]
    /\ Len(statusContainer) = 5

\* C29: func is invoked only when the wait time has elapsed since the most
\* recent call, with the args of that call, and once for the calls made since
\* the previous invocation; and after a call func is eventually invoked.
C29_DebounceOncePerBurst ==
    /\ [][invoked' # invoked
            => (/\ sinceCall >= DebounceWait
                /\ burstOpen
                /\ invoked' = Append(invoked, lastArgs))]_vars
    /\ (burstOpen ~> ~burstOpen)

\* C29 witness: func was invoked for a burst of calls whose last args differ
\* from those of an earlier burst.
C29_Witness ==
    /\ Len(invoked) = 2
    /\ invoked[1] # invoked[2]
    /\ ~burstOpen

\* C22: for a form with an object type chosen, size in 0.1..10, position X
\* in -10..10 and rotations in -180..180, zero included, and the material
\* fields as the form starts with, generateModel shows no error and starts a
\* run, and the request of a run carries the values of the form.
C22_DocumentedRangesAccepted ==
    LET inRange(f, lo, hi) ==
            formValues[f].t = "number" /\ formValues[f].n >= lo /\ formValues[f].n <= hi
        documented ==
            /\ formValues["object_type"] = Text("cube")
            /\ inRange("size", 1, 100)
            /\ inRange("pos_x", 0 - 100, 100)
            /\ \A f \in {"rot_x", "rot_y", "rot_z"} : inRange(f, 0 - 1800, 1800)
            /\ \A f \in {"color", "metallic", "roughness", "emission",
                         "emission_strength"} : formValues[f] = NominalForm[f]
    IN /\ (formLast.op = "generateModel" /\ documented)
            => (~formLast.err /\ progressRuns > 0)
       /\ formLast.op = "simulateProgress"
            => (/\ formLast.post.endpoint = "/api/generate"
                /\ \A f \in Fields \ {"object_type", "color", "emission"} :
                      formLast.post.data[f] = Num(formValues[f].n))

\* C24: when a field with a min/max rule holds a number below its minimum or
\* above its maximum, generateModel shows an error, starts no run and sends
\* nothing, and the progress modal is not shown.
C24_OutOfRangeRejected ==
    [][LET outOfRange ==
               \E f \in Fields :
                   /\ formValues[f].t = "number"
                   /\ \/ Rules(f).hasMin /\ formValues[f].n < Rules(f).min
                      \/ Rules(f).hasMax /\ formValues[f].n > Rules(f).max
       IN (formLast'.op = "generateModel" /\ outOfRange)
             => (/\ formLast'.err
                 /\ formLast'.post = NoPost
                 /\ ~progressModalShown'
                 /\ UNCHANGED <<progressRuns, generatePending>>)]_vars

\* C25: the model form sends POST /api/export only when it holds a model, and
\* it holds one only after a POST /api/generate succeeded: exportModel without
\* a current model reports an error and sends nothing, currentModel and the
\* onclick of the export button change only when a generation request
\* succeeds, and the export button changes only when a generation of the form
\* or of the AI generator succeeds.
C25_ExportOnlyAfterGenerate ==
    [][/\ exportPending' > exportPending => currentModel # NoModel
       /\ (currentModel = NoModel /\ formLast' # formLast
             /\ formLast'.op \in {"exportModel", "clickExport"})
            => (formLast'.post = NoPost /\ exportPending' = exportPending)
       /\ (currentModel = NoModel /\ formLast' # formLast
             /\ formLast'.op = "exportModel") => formLast'.err
       /\ (currentModel' # currentModel \/ exportBtn'.onclick # exportBtn.onclick)
            => (/\ generatePending' < generatePending
                /\ formLast'.op = "generateResponse"
                /\ formLast'.outcome = "success")
       /\ exportBtn' # exportBtn
            => \/ generatePending' < generatePending /\ formLast'.outcome = "success"
               \/ aiPending' < aiPending /\ aiLast'.outcome = "success"]_vars

\* an export request of the form is in flight for the model it generated
C25_Witness ==
    /\ exportPending > 0
    /\ currentModel # NoModel
    /\ formLast.post.endpoint = "/api/export"
    /\ formLast.post.model = currentModel

\* C23: every export request carries the model generated last, by the form or
\* by AI, and a click on the enabled export button after a generation sends
\* such a request.
C23_ExportsLatestModel ==
    [][/\ exportPending' > exportPending
            => (formLast'.post.endpoint = "/api/export"
                /\ formLast'.post.model = latestModel)
       /\ (formLast'.op = "clickExport" /\ formLast' # formLast
             /\ latestModel # NoModel)
            => exportPending' > exportPending]_vars

\* C21: once the health check has reported AI as not available and the AI
\* Generate button is disabled, the AI modal is not open and no
\* /api/ai/generate request is in flight; the button is disabled only when AI
\* is not configured.
C21_UnavailableNeverGenerates ==
    /\ openBtnDisabled => (~aiModalOpen /\ aiPending = 0)
    /\ openBtnDisabled => ~aiConfigured

\* C26: at most one /api/ai/generate request is in flight, and isGenerating is
\* true exactly while one is.
C26_OneAIRequest ==
    /\ aiPending <= 1
    /\ isGenerating <=> aiPending > 0

\* C27: once the AI scene modal has been reopened after a successful
\* generation and a description entered, no step except the close and cancel
\* buttons hides it and no step starts loadGeneratedScene from the submit
\* button; and when the
\* automatic load of a generated scene calls loadScene, the most recent
\* loadScene call is the one from before that generation finished, one for
\* the generated scene itself, or one made by loadGeneratedScene.
C27_SubmitOnlyGeneratesAfterReopen ==
    [][/\ (aiSceneReopened /\ aiSceneDescription # "")
            => (/\ \A s \in SceneIds :
                      pending'[Key("viewList", s)] <= pending[Key("viewList", s)]
                /\ (aiSceneModalOpen /\ ~aiSceneModalOpen')
                      => last'.op = "hideAISceneModal")
       /\ \A s \in SceneIds :
            pending'[Key("autoList", s)] < pending[Key("autoList", s)]
                => latestLoad \in {loadAtGeneration[s], s, generatedLoad}]_vars

====
